---- MODULE Spec2Model ----
(***************************************************************************)
(* Model of the multiplayer quiz server in src/Multiplayer.js: the         *)
(* in-memory rooms table, the socket.io event handlers, the suspended      *)
(* joinRoom continuations awaiting fetchQuestions, and the setTimeout      *)
(* callbacks armed by sendQuestionToRoom.                                  *)
(*                                                                         *)
(* Each handler runs to completion (Node's single thread); the only        *)
(* suspension point is the await in joinRoom.  A handler that throws       *)
(* (a property read on null/undefined) is an uncaught exception: the       *)
(* assignments made before the throw stay, `failed` is set and, as the     *)
(* source installs no uncaughtException handler, the process is gone and   *)
(* no further step is taken.                                               *)
(*                                                                         *)
(* Left out: the option list of a question and the category (both are      *)
(* only forwarded, never consulted), and socket.io's own room membership,  *)
(* which join/leave/disconnect keep equal to the key set of `players`.     *)
(***************************************************************************)
EXTENDS Integers, Sequences, FiniteSets, TLC

VARIABLES rooms, roomKeys, timers, fetching, fetchCount, nextCount, handled,
          emitted, log, failed

vars == <<rooms, roomKeys, timers, fetching, fetchCount, nextCount, handled,
          emitted, log, failed>>

\* ---------------- bounds ----------------
\* longest sequence the question provider returns over the network
MaxApiLen == 1
\* fetches issued per room
MaxFetch == 2
\* requestNext events per room
MaxNext == 1
\* answers the player records of a room accumulate (correct + wrong)
MaxAnswers == 2

\* ---------------- inputs ----------------
RoomIds == {"r1", "r2"}
\* a joinRoom payload without roomId
NoRoomId == ""
Conns == {"c1", "c2"}
\* the username a connection sends; "" stands for an absent username
UsernameOf(c) == IF c = "c1" THEN "" ELSE "ann"
\* "" stands for an absent mode
ModeInputs == {"", "multiple-correct"}
AnswerInputs == {"H2O", "Mars", "Paris"}
\* numbers, on which timeTaken || 0 is the identity
TimeTakenInputs == {3, 6, 9}

\* questions: null, or Array(qs) for an array qs (possibly empty)
Null == <<>>
Array(qs) == <<qs>>

\* ---------------- pure helpers ----------------
\* computePoints without its first line (if (!isCorrect) return 0)
computePointsAlways(mode, isCorrect, timeTaken, streak) ==
    IF mode = "multiple-correct"
    THEN 20 + (IF timeTaken <= 8 THEN 15 ELSE 0)
            + (IF streak > 1 THEN streak * 7 ELSE 0)
    ELSE 10 + (IF timeTaken <= 5 THEN 10 ELSE 0)
            + (IF streak > 1 THEN streak * 5 ELSE 0)

\* computePoints with the streak bonus granted from the first correct answer
computePointsEarlyBonus(mode, isCorrect, timeTaken, streak) ==
    IF ~isCorrect THEN 0
    ELSE IF mode = "multiple-correct"
         THEN 20 + (IF timeTaken <= 8 THEN 15 ELSE 0)
                 + (IF streak >= 1 THEN streak * 7 ELSE 0)
         ELSE 10 + (IF timeTaken <= 5 THEN 10 ELSE 0)
                 + (IF streak >= 1 THEN streak * 5 ELSE 0)

\* computePoints with a penalty for a wrong answer
computePointsPenalty(mode, isCorrect, timeTaken, streak) ==
    IF ~isCorrect THEN 0 - 5
    ELSE IF mode = "multiple-correct"
         THEN 20 + (IF timeTaken <= 8 THEN 15 ELSE 0)
                 + (IF streak > 1 THEN streak * 7 ELSE 0)
         ELSE 10 + (IF timeTaken <= 5 THEN 10 ELSE 0)
                 + (IF streak > 1 THEN streak * 5 ELSE 0)

\* computePoints(mode, isCorrect, timeTaken, streak)
computePoints(mode, isCorrect, timeTaken, streak) ==
    IF ~isCorrect THEN 0
    ELSE IF mode = "multiple-correct"
         THEN 20 + (IF timeTaken <= 8 THEN 15 ELSE 0)
                 + (IF streak > 1 THEN streak * 7 ELSE 0)
         ELSE 10 + (IF timeTaken <= 5 THEN 10 ELSE 0)
                 + (IF streak > 1 THEN streak * 5 ELSE 0)

\* the fallback set returned when the provider fails
Fallback ==
    << [question |-> "water",  answer |-> "H2O"],
       [question |-> "planet", answer |-> "Mars"],
       [question |-> "force",  answer |-> "Gravity"] >>

\* the i-th entry of a provider answer, after the map in fetchQuestions
ApiQuestion(i) ==
    [question |-> IF i % 2 = 1 THEN "capital" ELSE "planet",
     answer   |-> IF i % 2 = 1 THEN "Paris" ELSE "Mars"]

\* what fetchQuestions can resolve to: a mapped provider answer (possibly
\* empty: an empty results array is truthy) or the fallback set
FetchResults ==
    { [i \in 1..n |-> ApiQuestion(i)] : n \in 0..MaxApiLen } \cup {Fallback}

\* position of connection id c in a registry (0 when absent)
PosOf(players, c) ==
    IF \E i \in 1..Len(players) : players[i].id = c
    THEN CHOOSE i \in 1..Len(players) : players[i].id = c
    ELSE 0

HasPlayer(players, c) == PosOf(players, c) # 0

\* a registry kept as a list that join pushes to
PutPlayerPush(players, rec) == Append(players, rec)

\* players[id] = rec : an existing key keeps its place, a new key goes last
PutPlayer(players, rec) ==
    IF HasPlayer(players, rec.id)
    THEN [players EXCEPT ![PosOf(players, rec.id)] = rec]
    ELSE Append(players, rec)

\* delete players[id]
DeletePlayer(players, c) ==
    IF HasPlayer(players, c)
    THEN LET p == PosOf(players, c)
         IN  [i \in 1..(Len(players) - 1) |->
                 IF i < p THEN players[i] ELSE players[i + 1]]
    ELSE players

\* answers counted in the records of a registry
RECURSIVE Answered(_)
Answered(players) ==
    IF players = <<>> THEN 0
    ELSE Head(players).correct + Head(players).wrong + Answered(Tail(players))

\* Object.values(players).map(p => ({username, score}))
LobbyList(players) ==
    [i \in 1..Len(players) |->
        [username |-> players[i].username, score |-> players[i].score]]

\* Object.values(players).map(p => ({username, score, correct, wrong}))
ScoreList(players) ==
    [i \in 1..Len(players) |->
        [username |-> players[i].username, score |-> players[i].score,
         correct |-> players[i].correct, wrong |-> players[i].wrong]]

\* the insertion of a sort with the comparison a.score - b.score
RECURSIVE InsertByScoreAscending(_, _)
InsertByScoreAscending(sorted, e) ==
    IF sorted = <<>> THEN <<e>>
    ELSE IF Head(sorted).score <= e.score
         THEN <<Head(sorted)>> \o InsertByScoreAscending(Tail(sorted), e)
         ELSE <<e>> \o sorted

\* insert e into a list already sorted by score descending, after every
\* entry whose score is not smaller (stable)
RECURSIVE InsertByScore(_, _)
InsertByScore(sorted, e) ==
    IF sorted = <<>> THEN <<e>>
    ELSE IF Head(sorted).score >= e.score
         THEN <<Head(sorted)>> \o InsertByScore(Tail(sorted), e)
         ELSE <<e>> \o sorted

\* .sort((a,b) => b.score - a.score), a stable sort
RECURSIVE SortByScoreDesc(_)
SortByScoreDesc(list) ==
    IF list = <<>> THEN <<>>
    ELSE InsertByScore(SortByScoreDesc(SubSeq(list, 1, Len(list) - 1)),
                       list[Len(list)])

Leaderboard(players) == SortByScoreDesc(LobbyList(players))

Ev(name, to, data) == [name |-> name, to |-> to, data |-> data]

\* the entry the per-room history keeps of a game event: the total of
\* gameStarted, the index of a question, nothing (0) of gameOver
LogEntry(ev) ==
    [name |-> ev.name,
     n |-> IF ev.name = "gameStarted" THEN ev.data.totalQuestions
           ELSE IF ev.name = "question" THEN ev.data.index
           ELSE 0]

IsGameEv(ev) == ev.name \in {"gameStarted", "question", "gameOver"}

\* the history entries of the game events among `events`, in order
RECURSIVE GameLog(_)
GameLog(events) ==
    IF events = <<>> THEN <<>>
    ELSE (IF IsGameEv(Head(events)) THEN <<LogEntry(Head(events))>> ELSE <<>>)
         \o GameLog(Tail(events))

\* ---------------- state ----------------
\* rooms[r]    : the room object of rooms[roomId], for the ids r it has
\* roomKeys    : Object.keys(rooms), the room ids in creation order
\* timers      : the pending setTimeout callbacks, oldest first (all have
\*               the same delay, so they fire in the order they were armed)
\* fetching[r] : joinRoom handlers of room r suspended in await fetchQuestions
\* fetchCount[r], nextCount[r] : fetches issued / requestNext events so far
\* handled     : the last handler run: its event, the connection that sent it
\*               and the room id of its payload ("" where there is none)
\* emitted     : the events emitted by the last handler, in order
\* log[r]      : gameStarted / question / gameOver broadcasts of room r so far
\* failed      : a handler has thrown
TypeOK ==
    /\ DOMAIN rooms \subseteq RoomIds
    /\ DOMAIN rooms = {roomKeys[i] : i \in 1..Len(roomKeys)}
    /\ \A r \in DOMAIN rooms :
          /\ rooms[r].index \in Nat
          /\ rooms[r].started \in BOOLEAN
          /\ rooms[r].mode \in {"standard", "multiple-correct"}
          /\ rooms[r].questions \in {Null} \cup {Array(qs) : qs \in FetchResults}
          /\ \A i, j \in 1..Len(rooms[r].players) :
                rooms[r].players[i].id = rooms[r].players[j].id => i = j
    /\ fetching \in [RoomIds -> 0..MaxFetch]
    /\ fetchCount \in [RoomIds -> 0..MaxFetch]
    /\ nextCount \in [RoomIds -> 0..MaxNext]
    /\ failed \in BOOLEAN

\* const rooms = {}
Init ==
    /\ rooms = <<>>
    /\ roomKeys = <<>>
    /\ timers = <<>>
    /\ fetching = [r \in RoomIds |-> 0]
    /\ fetchCount = [r \in RoomIds |-> 0]
    /\ nextCount = [r \in RoomIds |-> 0]
    /\ handled = [op |-> "", conn |-> "", room |-> ""]
    /\ emitted = <<>>
    /\ log = [r \in RoomIds |-> <<>>]
    /\ failed = FALSE

Exists(r) == r \in DOMAIN rooms

Handling(op, c, r) == handled' = [op |-> op, conn |-> c, room |-> r]

\* room.questions as a sequence, when it is not null
Questions(room) == room.questions[1]

\* { players: {}, questions: null, index: 0, started: false, mode: mode || 'standard' }
NewRoom(mode) ==
    [players |-> <<>>, questions |-> Null, index |-> 0, started |-> FALSE,
     mode |-> IF mode = "" THEN "standard" ELSE mode]

\* { username: username || 'Guest', score: 0, streak: 0, correct: 0, wrong: 0 }
NewPlayer(c, username) ==
    [id |-> c, username |-> IF username = "" THEN "Guest" ELSE username,
     score |-> 0, streak |-> 0, correct |-> 0, wrong |-> 0]

\* if (!rooms[roomId].questions): null is falsy, every array is truthy
NeedsFetch(room) == room.questions = Null

\* room.questions[room.index] yields a question (not undefined, no throw)
HasCurrent(room) ==
    /\ room.questions # Null
    /\ room.index + 1 <= Len(Questions(room))

\* the question event of sendQuestionToRoom
QuestionEv(r, room) ==
    Ev("question", r,
       [index |-> room.index, total |-> Len(Questions(room)),
        question |-> Questions(room)[room.index + 1].question,
        duration |-> 12])

GameOverEv(r, room) ==
    Ev("gameOver", r, [leaderboard |-> Leaderboard(room.players)])

\* the broadcasts of room r among the events just emitted enter its history
Record(r) == log' = [log EXCEPT ![r] = @ \o GameLog(emitted')]

\* sendQuestionToRoom(roomId) on room object `room` (the state of rooms[r]
\* the caller leaves), after the caller emitted `before`, with `pending`
\* the timers pending when it is called
SendQuestion(r, room, before, pending) ==
    /\ rooms' = [rooms EXCEPT ![r] = room]
    /\ IF HasCurrent(room)
       THEN /\ emitted' = before \o <<QuestionEv(r, room)>>
            /\ timers' = Append(pending, [roomId |-> r, armedAt |-> room.index])
            /\ failed' = FALSE
       ELSE \* q is undefined (or questions is null): q.question throws
            /\ emitted' = before
            /\ timers' = pending
            /\ failed' = TRUE
    /\ Record(r)

\* if (room.index >= room.questions.length)
Exhausted(room) == room.index >= Len(Questions(room))

\* room.index++; if exhausted gameOver else sendQuestionToRoom: the body
\* shared by requestNext and the timer callback
Advance(r, pending) ==
    LET room == [rooms[r] EXCEPT !.index = @ + 1]
    IN  IF room.questions = Null
        THEN \* room.questions.length throws after the increment
             /\ rooms' = [rooms EXCEPT ![r] = room]
             /\ failed' = TRUE
             /\ emitted' = <<>>
             /\ timers' = pending
             /\ UNCHANGED log
        ELSE IF Exhausted(room)
        THEN /\ rooms' = [rooms EXCEPT ![r] = room]
             /\ emitted' = <<GameOverEv(r, room)>>
             /\ timers' = pending
             /\ UNCHANGED failed
             /\ Record(r)
        ELSE SendQuestion(r, room, <<>>, pending)

\* ---------------- handlers ----------------
\* socket.on('joinRoom'), up to the await
JoinRoom(c, rid, username, mode) ==
    /\ ~failed
    /\ Handling("joinRoom", c, rid)
    /\ IF rid = NoRoomId
       THEN /\ emitted' = <<Ev("errorMsg", c, "No room id provided")>>
            /\ UNCHANGED <<rooms, roomKeys, timers, fetching, fetchCount,
                           nextCount, log, failed>>
       ELSE LET old  == IF Exists(rid) THEN rooms[rid] ELSE NewRoom(mode)
                room == [old EXCEPT !.players =
                            PutPlayer(@, NewPlayer(c, username))]
            IN  /\ NeedsFetch(room) => fetchCount[rid] < MaxFetch
                /\ rooms' = [x \in DOMAIN rooms \cup {rid} |->
                              IF x = rid THEN room ELSE rooms[x]]
                /\ roomKeys' = IF Exists(rid) THEN roomKeys
                               ELSE Append(roomKeys, rid)
                /\ emitted' = <<Ev("lobbyUpdate", rid,
                                   [players |-> LobbyList(room.players)])>>
                /\ IF NeedsFetch(room)
                   THEN /\ fetching' = [fetching EXCEPT ![rid] = @ + 1]
                        /\ fetchCount' = [fetchCount EXCEPT ![rid] = @ + 1]
                   ELSE UNCHANGED <<fetching, fetchCount>>
                /\ UNCHANGED <<timers, nextCount, log, failed>>

\* the continuation of joinRoom: rooms[roomId].questions = qset
FetchResolve(r, qset) ==
    /\ ~failed
    /\ Handling("fetch", "", r)
    /\ fetching[r] > 0
    /\ fetching' = [fetching EXCEPT ![r] = @ - 1]
    /\ rooms' = [rooms EXCEPT ![r].questions = Array(qset)]
    /\ emitted' = <<>>
    /\ UNCHANGED <<roomKeys, timers, fetchCount, nextCount, log, failed>>

\* socket.on('leaveRoom')
LeaveRoom(c, r) ==
    /\ ~failed
    /\ Handling("leaveRoom", c, r)
    /\ IF ~Exists(r)
       THEN /\ emitted' = <<>>
            /\ UNCHANGED rooms
       ELSE LET room == [rooms[r] EXCEPT !.players = DeletePlayer(@, c)]
            IN  /\ rooms' = [rooms EXCEPT ![r] = room]
                /\ emitted' = <<Ev("lobbyUpdate", r,
                                   [players |-> LobbyList(room.players)])>>
    /\ UNCHANGED <<roomKeys, timers, fetching, fetchCount, nextCount, log,
                   failed>>

\* startRoom without the started check
StartIgnoredNever(room) == FALSE

\* if (room.started) return;
StartIgnored(room) == room.started

\* socket.on('startRoom')
StartRoom(c, r) ==
    /\ ~failed
    /\ Handling("startRoom", c, r)
    /\ UNCHANGED <<roomKeys, fetching, fetchCount, nextCount>>
    /\ IF ~Exists(r)
       THEN /\ emitted' = <<Ev("errorMsg", c, "Room not found")>>
            /\ UNCHANGED <<rooms, timers, log, failed>>
       ELSE IF StartIgnored(rooms[r])
       THEN /\ emitted' = <<>>
            /\ UNCHANGED <<rooms, timers, log, failed>>
       ELSE LET room == [rooms[r] EXCEPT !.started = TRUE, !.index = 0]
            IN  IF room.questions = Null
                THEN \* room.questions.length throws
                     /\ rooms' = [rooms EXCEPT ![r] = room]
                     /\ failed' = TRUE
                     /\ emitted' = <<>>
                     /\ UNCHANGED <<timers, log>>
                ELSE /\ SendQuestion(r, room,
                          <<Ev("gameStarted", r,
                               [totalQuestions |-> Len(Questions(room))])>>,
                          timers)

\* playerAnswer moving the cursor on when the answer is correct
PlayerAnswerAdvancing(c, r, answer, timeTaken) ==
    /\ ~failed
    /\ Handling("playerAnswer", c, r)
    /\ UNCHANGED <<roomKeys, timers, fetching, fetchCount, nextCount, log>>
    /\ IF ~Exists(r) \/ ~HasPlayer(rooms[r].players, c)
       THEN /\ emitted' = <<>>
            /\ UNCHANGED <<rooms, failed>>
       ELSE LET room   == rooms[r]
                pos    == PosOf(room.players, c)
                player == room.players[pos]
            IN  /\ Answered(room.players) < MaxAnswers
                /\ IF ~HasCurrent(room)
                   THEN \* questions is null or q is undefined: throws
                        /\ failed' = TRUE
                        /\ emitted' = <<>>
                        /\ UNCHANGED rooms
                   ELSE LET q         == Questions(room)[room.index + 1]
                            isCorrect == q.answer = answer
                            p1  == IF isCorrect
                                   THEN [player EXCEPT !.streak = @ + 1,
                                                       !.correct = @ + 1]
                                   ELSE [player EXCEPT !.streak = 0,
                                                       !.wrong = @ + 1]
                            pts == computePoints(room.mode, isCorrect,
                                                 timeTaken, p1.streak)
                            p2  == [p1 EXCEPT !.score = @ + pts]
                            players2 == [room.players EXCEPT ![pos] = p2]
                        IN  /\ rooms' = [rooms EXCEPT ![r].players = players2,
                                                ![r].index =
                                                   IF isCorrect THEN @ + 1 ELSE @]
                            /\ emitted' =
                                 << Ev("answerResult", c,
                                       [isCorrect |-> isCorrect,
                                        earned |-> pts,
                                        correctAnswer |-> q.answer]),
                                    Ev("scoreUpdate", r,
                                       [players |-> ScoreList(players2)]) >>
                            /\ UNCHANGED failed

\* socket.on('playerAnswer')
PlayerAnswer(c, r, answer, timeTaken) ==
    /\ ~failed
    /\ Handling("playerAnswer", c, r)
    /\ UNCHANGED <<roomKeys, timers, fetching, fetchCount, nextCount, log>>
    /\ IF ~Exists(r) \/ ~HasPlayer(rooms[r].players, c)
       THEN /\ emitted' = <<>>
            /\ UNCHANGED <<rooms, failed>>
       ELSE LET room   == rooms[r]
                pos    == PosOf(room.players, c)
                player == room.players[pos]
            IN  /\ Answered(room.players) < MaxAnswers
                /\ IF ~HasCurrent(room)
                   THEN \* questions is null or q is undefined: throws
                        /\ failed' = TRUE
                        /\ emitted' = <<>>
                        /\ UNCHANGED rooms
                   ELSE LET q         == Questions(room)[room.index + 1]
                            isCorrect == q.answer = answer
                            p1  == IF isCorrect
                                   THEN [player EXCEPT !.streak = @ + 1,
                                                       !.correct = @ + 1]
                                   ELSE [player EXCEPT !.streak = 0,
                                                       !.wrong = @ + 1]
                            pts == computePoints(room.mode, isCorrect,
                                                 timeTaken, p1.streak)
                            p2  == [p1 EXCEPT !.score = @ + pts]
                            players2 == [room.players EXCEPT ![pos] = p2]
                        IN  /\ rooms' = [rooms EXCEPT ![r].players = players2]
                            /\ emitted' =
                                 << Ev("answerResult", c,
                                       [isCorrect |-> isCorrect,
                                        earned |-> pts,
                                        correctAnswer |-> q.answer]),
                                    Ev("scoreUpdate", r,
                                       [players |-> ScoreList(players2)]) >>
                            /\ UNCHANGED failed

\* requestNext answering an unknown room as startRoom does
RequestNextWithError(c, r) ==
    /\ ~failed
    /\ Handling("requestNext", c, r)
    /\ UNCHANGED <<roomKeys, fetching, fetchCount>>
    /\ IF ~Exists(r)
       THEN /\ emitted' = <<Ev("errorMsg", c, "Room not found")>>
            /\ UNCHANGED <<rooms, timers, nextCount, log, failed>>
       ELSE /\ nextCount[r] < MaxNext
            /\ nextCount' = [nextCount EXCEPT ![r] = @ + 1]
            /\ Advance(r, timers)

\* socket.on('requestNext')
RequestNext(c, r) ==
    /\ ~failed
    /\ Handling("requestNext", c, r)
    /\ UNCHANGED <<roomKeys, fetching, fetchCount>>
    /\ IF ~Exists(r)
       THEN /\ emitted' = <<>>
            /\ UNCHANGED <<rooms, timers, nextCount, log, failed>>
       ELSE /\ nextCount[r] < MaxNext
            /\ nextCount' = [nextCount EXCEPT ![r] = @ + 1]
            /\ Advance(r, timers)

\* the scan of disconnect leaving its loop at the first room that holds c
RECURSIVE RoomsOfFirst(_, _)
RoomsOfFirst(keys, c) ==
    IF keys = <<>> THEN <<>>
    ELSE IF HasPlayer(rooms[Head(keys)].players, c)
         THEN <<Head(keys)>>
         ELSE RoomsOfFirst(Tail(keys), c)

\* the rooms of Object.keys(rooms), in order, whose registry holds c
RECURSIVE RoomsOf(_, _)
RoomsOf(keys, c) ==
    IF keys = <<>> THEN <<>>
    ELSE (IF HasPlayer(rooms[Head(keys)].players, c)
          THEN <<Head(keys)>> ELSE <<>>) \o RoomsOf(Tail(keys), c)

\* socket.on('disconnect')
Disconnect(c) ==
    /\ ~failed
    /\ Handling("disconnect", c, "")
    /\ LET hit == RoomsOf(roomKeys, c)
       IN  /\ rooms' = [r \in DOMAIN rooms |->
                          IF HasPlayer(rooms[r].players, c)
                          THEN [rooms[r] EXCEPT !.players = DeletePlayer(@, c)]
                          ELSE rooms[r]]
           /\ emitted' = [i \in 1..Len(hit) |->
                             Ev("lobbyUpdate", hit[i],
                                [players |-> LobbyList(rooms'[hit[i]].players)])]
    /\ UNCHANGED <<roomKeys, timers, fetching, fetchCount, nextCount, log,
                   failed>>

\* the setTimeout callback of sendQuestionToRoom: the oldest timer fires
TimerFire ==
    /\ ~failed
    /\ timers # <<>>
    /\ Handling("timer", "", Head(timers).roomId)
    /\ Advance(Head(timers).roomId, Tail(timers))
    /\ UNCHANGED <<roomKeys, fetching, fetchCount, nextCount>>

\* every event the rooms of R can receive, every fetch that can resolve and
\* the timer
NextOver(R) ==
    \/ \E c \in Conns, rid \in R \cup {NoRoomId}, m \in ModeInputs :
          JoinRoom(c, rid, UsernameOf(c), m)
    \/ \E r \in R, qset \in FetchResults : FetchResolve(r, qset)
    \/ \E c \in Conns, r \in R : LeaveRoom(c, r)
    \/ \E c \in Conns, r \in R : StartRoom(c, r)
    \/ \E c \in Conns, r \in R, a \in AnswerInputs,
          t \in TimeTakenInputs : PlayerAnswer(c, r, a, t)
    \/ \E c \in Conns, r \in R : RequestNext(c, r)
    \/ \E c \in Conns : Disconnect(c)
    \/ TimerFire

Next == NextOver({"r1"})

Spec == Init /\ [][Next]_vars

\* a pending setTimeout callback is eventually run by the event loop
FairSpec == Spec /\ WF_vars(TimerFire)

\* the events of two rooms in which no game is started: joins with the
\* default mode, fetches that fall back, leaves, correct first answers and
\* disconnects
LobbyNext ==
    \/ \E c \in Conns, rid \in RoomIds : JoinRoom(c, rid, UsernameOf(c), "")
    \/ \E r \in RoomIds : FetchResolve(r, Fallback)
    \/ \E c \in Conns, r \in RoomIds : LeaveRoom(c, r)
    \/ \E c \in Conns, r \in RoomIds : PlayerAnswer(c, r, "H2O", 3)
    \/ \E c \in Conns : Disconnect(c)

LobbySpec == Init /\ [][LobbyNext]_vars

\* ---------------- vocabulary of the properties ----------------
CountIn(seq, name) == Cardinality({i \in 1..Len(seq) : seq[i].name = name})

Populated(r) == r \in DOMAIN rooms /\ rooms[r].questions # Null

GameOverSent(r) == CountIn(log[r], "gameOver") > 0

\* lifecycle states of a room
Finished(r) == r \in DOMAIN rooms /\ rooms[r].started /\ GameOverSent(r)
InProgress(r) == r \in DOMAIN rooms /\ rooms[r].started /\ ~GameOverSent(r)

PlayerOf(rs, r, c) == rs[r].players[PosOf(rs[r].players, c)]

\* the last handler was a playerAnswer that got past its guards and did not throw
AnswerAccepted ==
    /\ handled.op = "playerAnswer"
    /\ ~failed
    /\ emitted # <<>>

\* C1: in every room whose question sequence is populated,
\* 0 <= index <= len(questions), and index = len(questions) only when the
\* room is Finished (started, gameOver broadcast).
C1_IndexInRange ==
    \A r \in DOMAIN rooms :
        Populated(r) =>
            /\ 0 <= rooms[r].index
            /\ rooms[r].index <= Len(Questions(rooms[r]))
            /\ rooms[r].index = Len(Questions(rooms[r])) => Finished(r)

\* C2: the question fetch is issued at most once per room, however the
\* joinRoom events interleave with the pending fetch.
C2_SingleFlight == \A r \in RoomIds : fetchCount[r] <= 1

\* C3: once a room's question sequence is set, no step changes it.
C3_QuestionsFrozen ==
    [][\A r \in DOMAIN rooms :
          rooms[r].questions # Null =>
              rooms'[r].questions = rooms[r].questions]_vars

\* C4: no handler ever fails (none reads an unset question sequence or a
\* question past the end of the sequence).
C4_NoHandlerFails == ~failed

\* C5: a startRoom on a room already started changes no room state and
\* emits nothing, and gameStarted is broadcast at most once per room.
C5_StartOnlyFromLobby ==
    /\ [](\A r \in RoomIds : CountIn(log[r], "gameStarted") <= 1)
    /\ [][\A r \in DOMAIN rooms :
            (handled'.op = "startRoom" /\ handled'.room = r
                /\ rooms[r].started)
            => /\ UNCHANGED <<rooms, roomKeys, timers, fetching, log, failed>>
               /\ emitted' = <<>>]_vars

\* a startRoom has just been ignored in a room whose game is running
C5_Witness ==
    /\ handled.op = "startRoom"
    /\ emitted = <<>>
    /\ ~failed
    /\ \E r \in DOMAIN rooms :
          /\ handled.room = r
          /\ rooms[r].started
          /\ CountIn(log[r], "gameStarted") = 1
          /\ timers # <<>>

\* C6: once a room with a populated question sequence is started, timer
\* firing alone takes it to Finished (gameOver broadcast).
C6_TimerProgress ==
    \A r \in RoomIds :
        (Populated(r) /\ rooms[r].started) ~> Finished(r)

\* the broadcasts of a whole game of n questions, in order
ExpectedLog(n) ==
    [i \in 1..(n + 2) |->
        IF i = 1 THEN [name |-> "gameStarted", n |-> n]
        ELSE IF i = n + 2 THEN [name |-> "gameOver", n |-> 0]
        ELSE [name |-> "question", n |-> i - 2]]

Min(a, b) == IF a <= b THEN a ELSE b

\* C7: in a started room with N questions (the totalQuestions announced by
\* gameStarted) and no requestNext, the broadcasts so far are gameStarted{N},
\* question 0, then one question per timer fire in index order, then one
\* gameOver after the timer of question N-1.
C7_BroadcastOrder ==
    \A r \in DOMAIN rooms :
        (Populated(r) /\ rooms[r].started /\ nextCount[r] = 0 /\ ~failed) =>
            /\ log[r] # <<>>
            /\ log[r][1].name = "gameStarted"
            /\ LET n == log[r][1].n
               IN  log[r] = SubSeq(ExpectedLog(n), 1, Min(rooms[r].index, n) + 2)

\* the step is a playerAnswer that got past its guards and did not throw
AnswerStep ==
    /\ handled'.op = "playerAnswer"
    /\ ~failed'
    /\ emitted' # <<>>

\* the answer of the question at the room's index
CurrentAnswer(r) == Questions(rooms[r])[rooms[r].index + 1].answer

\* C8: an accepted playerAnswer that differs from the current question's
\* answer sets the streak to 0, adds 1 to wrong, leaves score and correct
\* alone, and reports isCorrect = false, earned = 0.
C8_WrongAnswer ==
    [][AnswerStep =>
       \A a \in AnswerInputs, t \in TimeTakenInputs :
         LET c == handled'.conn
             r == handled'.room
         IN
         (PlayerAnswer(c, r, a, t) /\ a # CurrentAnswer(r))
         => LET old == PlayerOf(rooms, r, c)
                new == PlayerOf(rooms', r, c)
            IN  /\ new.streak = 0
                /\ new.wrong = old.wrong + 1
                /\ new.score = old.score
                /\ new.correct = old.correct
                /\ emitted'[1].name = "answerResult"
                /\ emitted'[1].to = c
                /\ emitted'[1].data.isCorrect = FALSE
                /\ emitted'[1].data.earned = 0]_vars

\* a player with a streak and a score has just answered wrongly
C8_Witness ==
    /\ AnswerAccepted
    /\ emitted[1].data.isCorrect = FALSE
    /\ LET p == PlayerOf(rooms, handled.room, handled.conn)
       IN  p.streak = 0 /\ p.wrong = 1 /\ p.correct = 1 /\ p.score > 0

\* the points of a correct answer as the scoring rules state them
StatedPoints(mode, t, s) ==
    IF mode = "multiple-correct"
    THEN 20 + (IF t <= 8 THEN 15 ELSE 0) + (IF s > 1 THEN 7 * s ELSE 0)
    ELSE 10 + (IF t <= 5 THEN 10 ELSE 0) + (IF s > 1 THEN 5 * s ELSE 0)

\* C9: an accepted playerAnswer equal to the current question's answer adds
\* 1 to streak and to correct and adds to the score the points of the
\* room's mode for the post-increment streak, reported as earned; the first
\* correct answer in standard mode with timeTaken 3 earns 20.
C9_CorrectAnswer ==
    [][AnswerStep =>
       \A a \in AnswerInputs, t \in TimeTakenInputs :
         LET c == handled'.conn
             r == handled'.room
         IN
         (PlayerAnswer(c, r, a, t) /\ a = CurrentAnswer(r))
         => LET old == PlayerOf(rooms, r, c)
                new == PlayerOf(rooms', r, c)
                pts == StatedPoints(rooms[r].mode, t, old.streak + 1)
            IN  /\ new.streak = old.streak + 1
                /\ new.correct = old.correct + 1
                /\ new.wrong = old.wrong
                /\ new.score = old.score + pts
                /\ emitted'[1].name = "answerResult"
                /\ emitted'[1].to = c
                /\ emitted'[1].data.isCorrect = TRUE
                /\ emitted'[1].data.earned = pts
                /\ (rooms[r].mode = "standard" /\ old.streak = 0 /\ t = 3)
                      => emitted'[1].data.earned = 20]_vars

\* a second consecutive correct answer has just earned a streak bonus in
\* multiple-correct mode
C9_Witness ==
    /\ AnswerAccepted
    /\ emitted[1].data.isCorrect = TRUE
    /\ rooms[handled.room].mode = "multiple-correct"
    /\ PlayerOf(rooms, handled.room, handled.conn).streak = 2
    /\ emitted[1].data.earned = 49

ScoresNonNegative ==
    \A r \in DOMAIN rooms :
        \A i \in 1..Len(rooms[r].players) : rooms[r].players[i].score >= 0

\* C10 as stated: every score in a registry is non-negative and no step
\* taken while the room is InProgress makes the score of a connection in the
\* registry smaller.
C10_ScoreMonotone ==
    /\ []ScoresNonNegative
    /\ [][\A r \in DOMAIN rooms, c \in Conns :
            (InProgress(r) /\ HasPlayer(rooms[r].players, c)
                /\ HasPlayer(rooms'[r].players, c))
            => PlayerOf(rooms', r, c).score >= PlayerOf(rooms, r, c).score]_vars

\* C10 amended: as above, for every step other than a joinRoom sent by that
\* same connection to that room (which overwrites its record with score 0).
C10_ScoreMonotoneButRejoin ==
    /\ []ScoresNonNegative
    /\ [][\A r \in DOMAIN rooms, c \in Conns :
            (InProgress(r) /\ HasPlayer(rooms[r].players, c)
                /\ HasPlayer(rooms'[r].players, c)
                /\ ~(handled'.op = "joinRoom" /\ handled'.conn = c
                       /\ handled'.room = r))
            => PlayerOf(rooms', r, c).score >= PlayerOf(rooms, r, c).score]_vars

\* in a running game a player holding points has just answered wrongly, and
\* keeps them
C10_Witness ==
    /\ AnswerAccepted
    /\ InProgress(handled.room)
    /\ emitted[1].data.earned = 0
    /\ PlayerOf(rooms, handled.room, handled.conn).score > 0

\* the step is a joinRoom of connection c to room r
JoinStep(c, r) ==
    /\ handled'.op = "joinRoom"
    /\ handled'.conn = c
    /\ handled'.room = r

ZeroStats(p) == p.score = 0 /\ p.streak = 0 /\ p.correct = 0 /\ p.wrong = 0

\* C11: a joinRoom from a connection already in the room's registry leaves
\* exactly one record of that id, with score, streak, correct and wrong 0,
\* leaves every other record as it was, and a second joinRoom right after a
\* first leaves the registry as the first left it.
C11_RejoinOverwrites ==
    [][\A r \in DOMAIN rooms, c \in Conns :
         (JoinStep(c, r) /\ HasPlayer(rooms[r].players, c))
         => LET old == rooms[r].players
                new == rooms'[r].players
            IN  /\ Cardinality({i \in 1..Len(new) : new[i].id = c}) = 1
                /\ Len(new) = Len(old)
                /\ \A i \in 1..Len(new) :
                      IF new[i].id = c THEN ZeroStats(new[i])
                      ELSE new[i] = old[i]
                /\ (handled.op = "joinRoom" /\ handled.conn = c
                       /\ handled.room = r) => new = old]_vars

\* a connection that holds points in a started room has just rejoined, ahead
\* in the registry of a player who joined after its first join and who
\* keeps points of its own
C11_Witness ==
    /\ handled.op = "joinRoom"
    /\ handled.room \in DOMAIN rooms
    /\ LET room == rooms[handled.room]
       IN  /\ room.started
           /\ Len(room.players) = 2
           /\ room.players[1].id = handled.conn
           /\ ZeroStats(room.players[1])
           /\ room.players[2].score > 0

\* the events among `events` sent to room r
EventsTo(events, r) ==
    LET ToR(e) == e.to = r IN SelectSeq(events, ToR)

\* the {username, score} entries of a registry without connection c
ListWithout(players, c) ==
    LET Other(p) == p.id # c IN LobbyList(SelectSeq(players, Other))

\* C12: after a disconnect of connection c no registry holds c; every room
\* that held it broadcasts exactly one lobbyUpdate, listing its players
\* without c; every room that did not hold it broadcasts nothing and is
\* unchanged.
C12_DisconnectLeavesAll ==
    [][\A c \in Conns :
         (handled'.op = "disconnect" /\ handled'.conn = c)
         => /\ DOMAIN rooms' = DOMAIN rooms
            /\ \A r \in DOMAIN rooms :
                  /\ ~HasPlayer(rooms'[r].players, c)
                  /\ IF HasPlayer(rooms[r].players, c)
                     THEN EventsTo(emitted', r) =
                            << Ev("lobbyUpdate", r,
                                  [players |->
                                      ListWithout(rooms[r].players, c)]) >>
                     ELSE /\ EventsTo(emitted', r) = <<>>
                          /\ rooms'[r] = rooms[r]
            /\ \A i \in 1..Len(emitted') : emitted'[i].to \in DOMAIN rooms]_vars

\* a connection that was in both rooms has just disconnected, one room is
\* left empty and the other keeps a player who holds points
C12_Witness ==
    /\ handled.op = "disconnect"
    /\ Len(emitted) = 2
    /\ emitted[1].to # emitted[2].to
    /\ \E r1, r2 \in DOMAIN rooms :
          /\ rooms[r1].players = <<>>
          /\ Len(rooms[r2].players) = 1
          /\ rooms[r2].players[1].score > 0

\* C13: a leaveRoom naming a room that does not exist, or sent by a
\* connection that is not in the room's registry, changes no state and emits
\* no event.
C13_LeaveNoOp ==
    [][(/\ handled'.op = "leaveRoom"
        /\ \/ handled'.room \notin DOMAIN rooms
           \/ ~HasPlayer(rooms[handled'.room].players, handled'.conn))
       => /\ emitted' = <<>>
          /\ UNCHANGED <<rooms, roomKeys, timers, fetching, fetchCount,
                         nextCount, log, failed>>]_vars

\* C14: errorMsg is emitted only by a joinRoom without room id and by a
\* startRoom on a room that does not exist, and only to the sender; a
\* leaveRoom, playerAnswer or requestNext naming a room that does not exist,
\* and a playerAnswer of a connection that is not in the registry, emit
\* nothing, create no room and change no state.
C14_ErrorMsgOnly ==
    /\ [](\A i \in 1..Len(emitted) :
            emitted[i].name = "errorMsg" =>
               /\ emitted[i].to = handled.conn
               /\ \/ handled.op = "joinRoom" /\ handled.room = NoRoomId
                  \/ handled.op = "startRoom"
                       /\ handled.room \notin DOMAIN rooms)
    /\ [][(\/ /\ handled'.op \in {"leaveRoom", "playerAnswer", "requestNext"}
              /\ handled'.room \notin DOMAIN rooms
           \/ /\ handled'.op = "playerAnswer"
              /\ handled'.room \in DOMAIN rooms
              /\ ~HasPlayer(rooms[handled'.room].players, handled'.conn))
          => /\ emitted' = <<>>
             /\ UNCHANGED <<rooms, roomKeys, timers, fetching, fetchCount,
                            nextCount, log, failed>>]_vars

\* a startRoom naming a room nobody has joined has just been answered with
\* errorMsg, to its sender alone
C14_Witness ==
    /\ handled.op = "startRoom"
    /\ handled.room \notin DOMAIN rooms
    /\ emitted = <<Ev("errorMsg", handled.conn, "Room not found")>>

\* C15: an accepted playerAnswer leaves the room's index, question sequence,
\* started flag, the pending timers and every other player's record as they
\* were; of the sender's record only score, streak, correct and wrong may
\* change.
C15_AnswerFrame ==
    [][AnswerStep =>
       LET r == handled'.room
           c == handled'.conn
           old == rooms[r].players
           new == rooms'[r].players
       IN  /\ rooms'[r].index = rooms[r].index
           /\ rooms'[r].questions = rooms[r].questions
           /\ rooms'[r].started = rooms[r].started
           /\ rooms'[r].mode = rooms[r].mode
           /\ timers' = timers
           /\ log' = log
           /\ Len(new) = Len(old)
           /\ \A i \in 1..Len(old) :
                 IF old[i].id = c
                 THEN new[i].id = c /\ new[i].username = old[i].username
                 ELSE new[i] = old[i]]_vars

\* in a started room past its first question, with a timer pending, a player
\* has just been scored beside another player who holds points
C15_Witness ==
    /\ AnswerAccepted
    /\ LET room == rooms[handled.room]
       IN  /\ room.started
           /\ room.index > 0
           /\ timers # <<>>
           /\ Len(room.players) = 2
           /\ \E i \in 1..2 :
                 /\ room.players[i].id # handled.conn
                 /\ room.players[i].score > 0

\* the orders in which n entries can be listed
Orderings(n) ==
    {f \in [1..n -> 1..n] : \A a, b \in 1..n : f[a] = f[b] => a = b}

\* lb lists each entry of list once, by score descending, entries of equal
\* score in the order list has them
IsLeaderboardOf(lb, list) ==
    /\ Len(lb) = Len(list)
    /\ \A j, k \in 1..Len(lb) : j < k => lb[j].score >= lb[k].score
    /\ \E f \in Orderings(Len(list)) :
          /\ \A j \in 1..Len(lb) : lb[j] = list[f[j]]
          /\ \A j, k \in 1..Len(lb) :
                (j < k /\ lb[j].score = lb[k].score) => f[j] < f[k]

\* C16: every gameOver leaderboard, from a timer fire or from requestNext,
\* has one (username, score) entry per player of the registry at that
\* moment, sorted by score descending, equal scores in registry order.
C16_Leaderboard ==
    \A i \in 1..Len(emitted) :
        emitted[i].name = "gameOver" =>
            /\ handled.op \in {"timer", "requestNext"}
            /\ emitted[i].to = handled.room
            /\ IsLeaderboardOf(emitted[i].data.leaderboard,
                               LobbyList(rooms[handled.room].players))

\* a timer fire has just ended a game with a leaderboard that puts the
\* second player of the registry first
C16_Witness ==
    /\ handled.op = "timer"
    /\ emitted # <<>>
    /\ emitted[1].name = "gameOver"
    /\ Len(emitted[1].data.leaderboard) = 2
    /\ emitted[1].data.leaderboard[1].score > emitted[1].data.leaderboard[2].score
    /\ emitted[1].data.leaderboard # LobbyList(rooms[handled.room].players)

\* C17: while a room is in Lobby (started is false) every player's score,
\* streak, correct and wrong are 0 and no handler of the room emits
\* answerResult or scoreUpdate.
C17_AnswerOnlyInProgress ==
    \A r \in DOMAIN rooms :
        ~rooms[r].started =>
            /\ \A i \in 1..Len(rooms[r].players) :
                  ZeroStats(rooms[r].players[i])
            /\ handled.room = r =>
                  \A i \in 1..Len(emitted) :
                      emitted[i].name \notin {"answerResult", "scoreUpdate"}

\* the timers pending for room r
TimersOf(r) == {i \in 1..Len(timers) : timers[i].roomId = r}

\* C18: once a started room has broadcast gameOver, no timer is pending for
\* it, its index does not change and no further question or gameOver is
\* broadcast for it.
C18_FinishedTerminal ==
    /\ [](\A r \in DOMAIN rooms : Finished(r) => TimersOf(r) = {})
    /\ [][\A r \in DOMAIN rooms :
            Finished(r) =>
               /\ rooms'[r].index = rooms[r].index
               /\ CountIn(log'[r], "question") = CountIn(log[r], "question")
               /\ CountIn(log'[r], "gameOver") = CountIn(log[r], "gameOver")]_vars

\* C19: at most one timer is pending per room, and the timer that fires is
\* the one armed when the current question was sent.
C19_OneTimer ==
    /\ [](\A r \in RoomIds : Cardinality(TimersOf(r)) <= 1)
    /\ [][TimerFire =>
            Head(timers).armedAt = rooms[Head(timers).roomId].index]_vars

\* the index of room r has not moved since the room was created
NeverAdvanced(r) == nextCount[r] = 0 /\ Len(log[r]) <= 2

\* C20: each player is scored at most once per question; for the first
\* question of a started game: until the index first advances, no record
\* counts more than one answer.
C20_OncePerQuestion ==
    \A r \in DOMAIN rooms :
        (rooms[r].started /\ NeverAdvanced(r)) =>
            \A i \in 1..Len(rooms[r].players) :
                rooms[r].players[i].correct + rooms[r].players[i].wrong <= 1

====
